---- MODULE Spec2Model ----
(***************************************************************************)
(* A model of the mcp-otel agent: the ClaudeAgent class (initialize,       *)
(* connect, getMcpTools, handleToolUse, chat, cleanup), the calculator and *)
(* fetch MCP workers, the interactive loop of index.ts and the SIGTERM     *)
(* handler of tracing.ts.                                                  *)
(*                                                                         *)
(* JavaScript runs one callback to its next await; every action below is   *)
(* one such run.  An action named ...Return is the continuation of an      *)
(* await: the remote side has answered and the caller resumes.             *)
(*                                                                         *)
(* Specifications:                                                         *)
(*   Spec        the agent driven by an arbitrary caller of its methods    *)
(*   SpecCli     the agent driven by index.ts (lines, signals, timers)     *)
(*   SpecWorker  the two worker tool handlers called directly, with and    *)
(*               without a trace context in _meta                          *)
(*   SpecCallers the agent driven by callers that do not await their calls *)
(*   SpecTools   Spec with workers whose tool lists change while they run  *)
(*   SpecStop    Spec with a model that may give stop_reason end_turn in a *)
(*               response that requests tools                              *)
(*   SpecReply   Spec with workers whose tool results hold any blocks      *)
(*   SpecMethods Spec with a caller that also calls getMcpTools() and      *)
(*               handleToolUse() itself                                    *)
(*   SpecLoop    connect() and chat() with a model that asks for tools in  *)
(*               response after response; every pending await is answered  *)
(***************************************************************************)
EXTENDS Integers, Sequences, FiniteSets, TLC

\* ---------------------------------------------------------------- bounds
MaxCalls == 3        \* connect(), chat() and cleanup() invocations in one behaviour
MaxModelCalls == 2   \* model calls after which the model asks for no more tools
MaxLines == 2        \* input lines the interactive loop reads
MaxSignals == 2      \* SIGINT/SIGTERM deliveries
MaxWorkerCalls == 2  \* direct invocations of a worker's tool on one request
MaxDown == 1         \* workers that die in one behaviour
MaxOperand == 3      \* operands of calculate in direct worker calls: 0..MaxOperand
MaxBlocks == 2       \* content blocks in a tool result of an arbitrary worker
MaxIterations == 3   \* responses of one turn in which a persistent model asks for tools

VARIABLES
  tracer,               \* this.tracer is set
  servers,              \* this.servers, names in connection order
  toolServerMap,        \* this.toolServerMap: set of <<tool name, server name>>
  messages,             \* this.messages, the transcript
  sessionSpan,          \* this.sessionSpan: span id, 0 for null
  sessionContext,       \* this.sessionContext: id of the span it makes active, 0 for null
  conversationHistory,  \* this.conversationHistory
  spans,                \* every span started so far, by id; agent and workers
  conn,                 \* the MCP clients created so far, by id: [name, state, tools], state
                        \* one of "connecting", "failed", "open", "closed" (by close()),
                        \* "down"; tools is what the worker behind it answers to tools/list
  calls,                \* the invocations of agent methods, in call order, with their locals
  modelCalls,           \* number of model calls issued
  cli,                  \* index.ts: isClosing, agent, rl, the pending await, timer, exit
  wk                    \* direct worker invocations: the request and the results

vars == <<tracer, servers, toolServerMap, messages, sessionSpan, sessionContext,
          conversationHistory, spans, conn, calls, modelCalls, cli, wk>>

agentVars == <<tracer, servers, toolServerMap, messages, sessionSpan, sessionContext,
               conversationHistory, spans, conn, calls, modelCalls>>

\* ------------------------------------------------------------ small helpers
Digits == <<"0", "1", "2", "3", "4", "5", "6", "7", "8", "9">>

RECURSIVE IntToStr(_)
\* String(n) for an integer n
IntToStr(n) ==
  IF n < 0 THEN "-" \o IntToStr(-n)
  ELSE IF n < 10 THEN Digits[n + 1]
  ELSE IntToStr(n \div 10) \o Digits[(n % 10) + 1]

\* a call evaluates its argument once, before the body runs: F applied to the
\* value of S0
Once(S0, F(_)) == CHOOSE T \in {F(S) : S \in {S0}} : TRUE

\* ------------------------------------------------------------------- spans
(* A span.  trace is the traceId, parent the parent's span id (0: none),   *)
(* remote the isRemote flag of a parent that came from another process,    *)
(* ends the number of end() calls, late the number of writes (attribute or *)
(* status) made after the span was ended, turns the conversation.turns     *)
(* attribute (-1: not set), io the input.value/output.value attribute of   *)
(* the session span ("": not set), flags the traceFlags (1: sampled; a child *)
(* takes its parent's), req the dispatch span whose request a worker was   *)
(* serving when it started the span, sess the session span that was live   *)
(* when the span was started (req, sess: 0 for none), inTurn the number of *)
(* times the turn-recording step of chat() wrote the session span while a  *)
(* chat.turn span was open (req, sess, inTurn: bookkeeping only).          *)
NewSpan(name, trace, parent, svc, remote, flags) ==
  [name |-> name, trace |-> trace, parent |-> parent, svc |-> svc, remote |-> remote,
   flags |-> flags, status |-> "unset", msg |-> "", ends |-> 0, late |-> 0, turns |-> -1,
   event |-> "", req |-> 0, sess |-> 0, inTurn |-> 0, io |-> ""]

Sampled == 1   \* TraceFlags.SAMPLED

\* tracer.startSpan / startActiveSpan under a context whose active span is parent
\* (0: no active span, the new span starts a trace of its own)
startSpan(sp, name, parent, svc) ==
  LET id == Len(sp) + 1
  IN  Append(sp, NewSpan(name, IF parent = 0 THEN id ELSE sp[parent].trace, parent, svc, FALSE,
                         IF parent = 0 THEN Sampled ELSE sp[parent].flags))

\* a setStatus that keeps a status of ok once it is set
setStatusOkFinal(sp, id, code, msg) ==
  IF sp[id].ends > 0 THEN [sp EXCEPT ![id].late = @ + 1]
  ELSE IF sp[id].status = "ok" THEN sp
  ELSE [sp EXCEPT ![id].status = code, ![id].msg = msg]

\* span.setStatus({code, message}): the last status set before end() stays
setStatus(sp, id, code, msg) ==
  IF sp[id].ends > 0 THEN [sp EXCEPT ![id].late = @ + 1]
  ELSE [sp EXCEPT ![id].status = code, ![id].msg = msg]

endSpan(sp, id) == [sp EXCEPT ![id].ends = @ + 1]

setTurns(sp, id, n) ==
  IF sp[id].ends > 0 THEN [sp EXCEPT ![id].late = @ + 1]
  ELSE [sp EXCEPT ![id].turns = n]

setIo(sp, id, text) ==
  IF sp[id].ends > 0 THEN [sp EXCEPT ![id].late = @ + 1]
  ELSE [sp EXCEPT ![id].io = text]

setEvent(sp, id, e) ==
  IF sp[id].ends > 0 THEN [sp EXCEPT ![id].late = @ + 1]
  ELSE [sp EXCEPT ![id].event = e]

\* a chat.turn span has been started and not ended
TurnOpen(sp) == \E k \in 1..Len(sp) : sp[k].name = "chat.turn" /\ sp[k].ends = 0

\* chat() is about to write the attributes of the session span id: bookkeeping
rootWritten(sp, id) == IF TurnOpen(sp) THEN [sp EXCEPT ![id].inTurn = @ + 1] ELSE sp

\* ----------------------------------------------------------- content blocks
TextBlock(t) == [type |-> "text", text |-> t]
ToolUseBlock(id, name, input) == [type |-> "tool_use", id |-> id, name |-> name, input |-> input]
\* a tool result that does not name the request it answers
ToolResultBlockAnonymous(id, content) ==
  [type |-> "tool_result", tool_use_id |-> 0, content |-> content]

ToolResultBlock(id, content) == [type |-> "tool_result", tool_use_id |-> id, content |-> content]
ImageBlock == [type |-> "image"]

\* JSON.stringify of one content block of a tool result
StringifyBlock(b) ==
  IF b.type = "text" THEN "{\"type\":\"text\",\"text\":\"" \o b.text \o "\"}"
  ELSE "{\"type\":\"" \o b.type \o "\"}"

RECURSIVE StringifyRest(_)
StringifyRest(content) ==
  IF content = <<>> THEN "" ELSE "," \o StringifyBlock(Head(content)) \o StringifyRest(Tail(content))

\* JSON.stringify of an array of content blocks
Stringify(content) ==
  IF content = <<>> THEN "[]"
  ELSE "[" \o StringifyBlock(Head(content)) \o StringifyRest(Tail(content)) \o "]"

\* --------------------------------------------------------- trace context
(* The value found at extra._meta?.__traceContext.  kind "absent": no      *)
(* _meta or no such key; "falsy": a value JavaScript treats as false       *)
(* (null, 0, ""); "object": an object, whose ids are 0 when they are not   *)
(* valid ids.                                                              *)
NoTraceContext ==
  [kind |-> "absent", traceId |-> 0, spanId |-> 0, traceFlags |-> 0, isRemote |-> FALSE]

\* !traceContext is false
Truthy(tc) == tc.kind = "object"

\* trace.wrapSpanContext(traceContext) followed by startSpan under it: the SDK
\* takes the parent only when both ids are valid, else the span starts a trace
startRemoteChild(sp, name, tc, svc) ==
  LET id == Len(sp) + 1
      valid == tc.traceId # 0 /\ tc.spanId # 0
  IN  Append(sp, NewSpan(name, IF valid THEN tc.traceId ELSE id,
                         IF valid THEN tc.spanId ELSE 0, svc, valid /\ tc.isRemote,
                         IF valid THEN tc.traceFlags ELSE Sampled))

\* ------------------------------------------------------------ the workers
(* servers/calculator.ts.  The tool body: the switch over operation.       *)
(* ok is FALSE when the body throws, msg is then the Error's message.      *)
Operations == {"add", "subtract", "multiply", "divide"}

\* the digits JavaScript prints after the integer part of r/d, 0 < r < d <= 4
Fraction(r, d) ==
  IF d = 2 THEN ".5"
  ELSE IF d = 3 THEN (IF r = 1 THEN ".3333333333333333" ELSE ".6666666666666666")
  ELSE IF r = 1 THEN ".25" ELSE IF r = 2 THEN ".5" ELSE ".75"

\* String(a / b) for a >= 0, b > 0
QuotientToStr(a, b) ==
  IF a % b = 0 THEN IntToStr(a \div b) ELSE IntToStr(a \div b) \o Fraction(a % b, b)

calculateBody(operation, a, b) ==
  IF operation = "add" THEN [ok |-> TRUE, text |-> IntToStr(a + b), msg |-> ""]
  ELSE IF operation = "subtract" THEN [ok |-> TRUE, text |-> IntToStr(a - b), msg |-> ""]
  ELSE IF operation = "multiply" THEN [ok |-> TRUE, text |-> IntToStr(a * b), msg |-> ""]
  ELSE IF b = 0 THEN [ok |-> FALSE, text |-> "", msg |-> "Division by zero"]
  ELSE [ok |-> TRUE, text |-> QuotientToStr(a, b), msg |-> ""]

\* the first statement of the handler: what it does with the metadata
calculateHasContext(tc) == Truthy(tc)

(* The calculate tool handler.  Returns the handler's outcome and the      *)
(* spans after it: ok/content when it resolves, msg when it throws.        *)
calculate(input, tc, sp) ==
  IF ~calculateHasContext(tc)
  THEN [ok |-> TRUE, content |-> <<TextBlock("Error: No trace context")>>, msg |-> "",
        spans |-> sp]
  ELSE LET sp1 == startRemoteChild(sp, "calculator.operation", tc, "calculator")
           id == Len(sp1)
           r == calculateBody(input.operation, input.a, input.b)
       IN  IF r.ok
           THEN [ok |-> TRUE, content |-> <<TextBlock(r.text)>>, msg |-> "",
                 spans |-> endSpan(setStatus(sp1, id, "ok", ""), id)]
           ELSE [ok |-> FALSE, content |-> <<>>, msg |-> r.msg,
                 spans |-> endSpan(setStatus(sp1, id, "error", r.msg), id)]

(* servers/fetch.ts.  http is what the network does for this request:      *)
(* [ok, html]; turndown is the HTML to markdown conversion on the pages    *)
(* the model uses.                                                         *)
turndown(html) ==
  IF html = "<h1>a</h1>" THEN "# a"
  ELSE IF html = "<p>b</p>" THEN "b"
  ELSE html

\* handleFetch, the path without a trace context
handleFetch(http, sp) ==
  IF http.ok
  THEN [ok |-> TRUE, content |-> <<TextBlock(turndown(http.html))>>, msg |-> "", spans |-> sp]
  ELSE [ok |-> FALSE, content |-> <<>>, msg |-> "fetch failed", spans |-> sp]

\* the fetch tool handler
fetchTool(input, http, tc, sp) ==
  IF ~Truthy(tc) THEN handleFetch(http, sp)
  ELSE LET sp1 == startRemoteChild(sp, "fetch.operation", tc, "fetch")
           op == Len(sp1)
           sp2 == startSpan(sp1, "fetch.http_request", op, "fetch")
           rq == Len(sp2)
       IN  IF ~http.ok
           THEN \* fetch(url) throws: catch, finally; fetchSpan.end() is never reached
                [ok |-> FALSE, content |-> <<>>, msg |-> "fetch failed",
                 spans |-> endSpan(setStatus(sp2, op, "error", "fetch failed"), op)]
           ELSE LET sp3 == endSpan(setStatus(sp2, rq, "ok", ""), rq)
                    sp4 == startSpan(sp3, "fetch.markdown_conversion", op, "fetch")
                    md == Len(sp4)
                    sp5 == endSpan(setStatus(sp4, md, "ok", ""), md)
                IN  [ok |-> TRUE, content |-> <<TextBlock(turndown(http.html))>>, msg |-> "",
                     spans |-> endSpan(setStatus(sp5, op, "ok", ""), op)]

\* the worker process serving one tools/call request
ServeTool(name, input, http, tc, sp) ==
  IF name = "calculate" THEN calculate(input, tc, sp) ELSE fetchTool(input, http, tc, sp)

\* ------------------------------------------------------- the agent's state
ServerFiles == <<"calculator", "fetch">>   \* readdirSync(serversDir), the *.js files

\* the tools a worker registers with server.tool(...)
AdvertisedTools(name) == IF name = "calculator" THEN <<"calculate">> ELSE <<"fetch">>

(* One invocation of connect(), chat() or cleanup(), with the locals of    *)
(* that call.  pc is the await it is suspended at ("connect", "list",      *)
(* "model", "tool", "close") or "done"; result is "pending", "ok" or       *)
(* "error" (the promise rejected, err is the message).  ev lists, in the   *)
(* order they happened, the model calls issued ("fail": the call threw),   *)
(* the tool requests each                                                  *)
(* response carried, and the start and the end of every handleToolUse      *)
(* call; ended is the session span a cleanup() ended (0: none); stop is    *)
(* the stop_reason of the latest model response ("": none yet); reply is   *)
(* result.content of the latest callTool that resolved; returned is the    *)
(* content of the response chat() returned.                                *)
NewCall(op, input) ==
  [op |-> op, input |-> input, pc |-> "run", result |-> "pending", err |-> "",
   span |-> 0, listSpan |-> 0, serverSpan |-> 0, modelSpan |-> 0, toolSpan |-> 0,
   server |-> 0, toolCtx |-> NoTraceContext, idx |-> 0, mc |-> 0,
   content |-> <<>>, bi |-> 0, assistantContent |-> <<>>, toolResults |-> <<>>,
   tools |-> <<>>, sent |-> 0, output |-> "", ended |-> 0, ev |-> <<>>, stop |-> "",
   reply |-> <<>>, returned |-> <<>>]

Ev(e, id) == [e |-> e, id |-> id]

\* the promise settles: the locals of the call are dropped
Settle(c, result, err) ==
  [c EXCEPT !.pc = "done", !.result = result, !.err = err,
            !.content = <<>>, !.bi = 0, !.assistantContent = <<>>, !.toolResults = <<>>,
            !.toolCtx = NoTraceContext, !.server = 0, !.idx = 0, !.reply = <<>>]

(* The agent's fields and the call c that is running, as one value that    *)
(* the steps below transform.                                              *)
Bundle(c) ==
  [tracer |-> tracer, servers |-> servers, map |-> toolServerMap, messages |-> messages,
   sspan |-> sessionSpan, sctx |-> sessionContext, hist |-> conversationHistory,
   spans |-> spans, conn |-> conn, modelCalls |-> modelCalls, c |-> c]

\* a lookup that falls back to some registered worker for an unknown name
MapGetFallback(map, name) ==
  IF \E p \in map : p[1] = name THEN (CHOOSE p \in map : p[1] = name)[2]
  ELSE IF map = {} THEN 0 ELSE (CHOOSE p \in map : TRUE)[2]

\* toolServerMap.get(name): the connection id, 0 for undefined
MapGet(map, name) ==
  IF \E p \in map : p[1] = name THEN (CHOOSE p \in map : p[1] = name)[2] ELSE 0

\* toolServerMap.set(name, server)
MapSet(map, name, server) == {p \in map : p[1] # name} \cup {<<name, server>>}

RECURSIVE MapSetAll(_, _, _)
MapSetAll(map, names, server) ==
  IF names = <<>> THEN map ELSE MapSetAll(MapSet(map, Head(names), server), Tail(names), server)

\* ----------------------------------------------------------------- chat()
SessionError == "Session context not initialized. Call connect() first."

\* a failing turn that takes its latest message back out of the transcript
chatThrowRollback(S, msg) ==
  LET c == S.c
      sp1 == IF c.modelSpan # 0
             THEN endSpan(setStatus(S.spans, c.modelSpan, "error", msg), c.modelSpan)
             ELSE S.spans
      sp2 == endSpan(setStatus(sp1, c.span, "error", msg), c.span)
  IN  [S EXCEPT !.spans = sp2, !.c = Settle(c, "error", msg),
                !.messages = IF @ = <<>> THEN @ ELSE SubSeq(@, 1, Len(@) - 1)]

(* An exception leaves chat(): the inner catch and finally (once the       *)
(* chat.model_call span exists), then the outer catch and finally.         *)
chatThrow(S0, msg) ==
  LET step(S) ==
        LET c == S.c
            sp1 == IF c.modelSpan # 0
                   THEN endSpan(setStatus(S.spans, c.modelSpan, "error", msg), c.modelSpan)
                   ELSE S.spans
            sp2 == endSpan(setStatus(sp1, c.span, "error", msg), c.span)
        IN  [S EXCEPT !.spans = sp2, !.c = Settle(c, "error", msg)]
  IN  Once(S0, step)

(* An exception leaves getMcpTools() or handleToolUse(), whose own catch    *)
(* and finally have run: inside chat() it goes on through the blocks of     *)
(* chat(); when a caller invoked the method itself, its promise rejects.   *)
methodThrow(S, msg) ==
  IF S.c.op = "chat" THEN chatThrow(S, msg) ELSE [S EXCEPT !.c = Settle(S.c, "error", msg)]

\* a trace context that names the parent of the dispatch span instead of it
traceContextOfParent(sp, id) ==
  [kind |-> "object", traceId |-> sp[id].trace, spanId |-> sp[id].parent,
   traceFlags |-> sp[id].flags, isRemote |-> FALSE]

\* the trace context handleToolUse puts into _meta.__traceContext
traceContextOf(sp, id) ==
  [kind |-> "object", traceId |-> sp[id].trace, spanId |-> id,
   traceFlags |-> sp[id].flags, isRemote |-> FALSE]

\* a handleToolUse that starts its span under the span of the turn
handleToolUseUnderTurn(S, block) ==
  LET c == [S.c EXCEPT !.ev = Append(@, Ev("start", block.id))]
  IN  IF S.sctx = 0
      THEN methodThrow([S EXCEPT !.c = [c EXCEPT !.ev = Append(@, Ev("end", block.id))]],
                       SessionError)
      ELSE LET sp1 == startSpan(S.spans, "mcp_tool." \o block.name,
                                IF c.span # 0 THEN c.span ELSE S.sctx, "agent")
               id == Len(sp1)
               server == MapGet(S.map, block.name)
               msg == "No server found for tool: " \o block.name
           IN  IF server = 0
               THEN methodThrow([S EXCEPT !.spans = endSpan(setStatus(sp1, id, "error", msg), id),
                                          !.c = [c EXCEPT !.ev = Append(@, Ev("end", block.id))]],
                                msg)
               ELSE [S EXCEPT !.spans = sp1,
                              !.c = [c EXCEPT !.pc = "tool", !.toolSpan = id,
                                              !.server = server,
                                              !.toolCtx = traceContextOf(sp1, id)]]

(* handleToolUse up to its await: the guard, the mcp_tool span under the   *)
(* session context, the lookup in toolServerMap, the callTool request.     *)
handleToolUse(S0, block) ==
  LET step(S) ==
        LET c == [S.c EXCEPT !.ev = Append(@, Ev("start", block.id))]
        IN  IF S.sctx = 0
            THEN methodThrow([S EXCEPT !.c = [c EXCEPT !.ev = Append(@, Ev("end", block.id))]],
                             SessionError)
            ELSE LET sp1 == startSpan(S.spans, "mcp_tool." \o block.name, S.sctx, "agent")
                     id == Len(sp1)
                     server == MapGet(S.map, block.name)
                     msg == "No server found for tool: " \o block.name
                 IN  IF server = 0
                     THEN methodThrow([S EXCEPT !.spans = endSpan(setStatus(sp1, id, "error", msg), id),
                                                !.c = [c EXCEPT !.ev = Append(@, Ev("end", block.id))]],
                                      msg)
                     ELSE [S EXCEPT !.spans = sp1,
                                    !.c = [c EXCEPT !.pc = "tool", !.toolSpan = id,
                                                    !.server = server,
                                                    !.toolCtx = traceContextOf(sp1, id)]]
  IN  Once(S0, step)

\* an output that is the first text block alone
ConcatTextFirst(content) ==
  IF \E k \in 1..Len(content) : content[k].type = "text"
  THEN content[CHOOSE k \in 1..Len(content) :
                 content[k].type = "text" /\ \A j \in 1..(k - 1) : content[j].type # "text"].text
  ELSE ""

RECURSIVE ConcatText(_)
\* outputText: the text blocks of a response, concatenated
ConcatText(content) ==
  IF content = <<>> THEN ""
  ELSE (IF Head(content).type = "text" THEN Head(content).text ELSE "")
       \o ConcatText(Tail(content))

\* `[Turn ${i+1}]\nUser: ${turn.input}\nAssistant: ${turn.output}`
TurnText(hist, k) ==
  "[Turn " \o IntToStr(k) \o "]\nUser: " \o hist[k].input \o "\nAssistant: " \o hist[k].output

RECURSIVE JoinTurns(_, _)
\* the turns from k on, each preceded by the separator of join
JoinTurns(hist, k) ==
  IF k > Len(hist) THEN "" ELSE "\n\n" \o TurnText(hist, k) \o JoinTurns(hist, k + 1)

\* conversationTranscript: the turns of the history joined by an empty line
conversationTranscript(hist) ==
  IF hist = <<>> THEN "" ELSE TurnText(hist, 1) \o JoinTurns(hist, 2)

(* The turn is done: the output text, the history, the session span's      *)
(* attributes, the status of the chat.turn span, the two finally blocks.   *)
finishTurn(S0) ==
  LET step(S) ==
        LET c == S.c
            outputText == ConcatText(c.content)
            hist == Append(S.hist, [input |-> c.input, output |-> outputText])
            sp1 == IF S.sspan # 0
                   THEN setIo(setTurns(rootWritten(S.spans, S.sspan), S.sspan, Len(hist)),
                              S.sspan, conversationTranscript(hist))
                   ELSE S.spans
            sp2 == setStatus(sp1, c.span, "ok", "")
            sp3 == endSpan(endSpan(sp2, c.modelSpan), c.span)
        IN  [S EXCEPT !.hist = hist, !.spans = sp3,
                      !.c = [Settle(c, "ok", "") EXCEPT !.output = outputText, !.returned = c.content]]
  IN  Once(S0, step)

\* messages.create is called with this.messages and the tools: the await
callModel(S0) ==
  LET step(S) ==
        [S EXCEPT !.modelCalls = @ + 1,
                  !.c = [S.c EXCEPT !.pc = "model", !.mc = @ + 1, !.sent = Len(S.messages),
                                    !.ev = Append(@, Ev("model", S.c.mc + 1))]]
  IN  Once(S0, step)

\* a loop that gives up after its first continuation call
afterBlocksCapped(S) ==
  LET c == S.c
      m1 == Append(S.messages, [role |-> "assistant", content |-> c.assistantContent])
  IN  IF Len(c.toolResults) > 0 /\ c.mc < 2
      THEN callModel([S EXCEPT !.messages = Append(m1, [role |-> "user", content |-> c.toolResults])])
      ELSE finishTurn([S EXCEPT !.messages = m1])

(* After the last block of a response: the assistant message, then either  *)
(* the tool results as a user message and the next model call, or the end. *)
afterBlocks(S0) ==
  LET step(S) ==
        LET c == S.c
            m1 == Append(S.messages, [role |-> "assistant", content |-> c.assistantContent])
        IN  IF Len(c.toolResults) > 0
            THEN callModel([S EXCEPT !.messages = Append(m1, [role |-> "user", content |-> c.toolResults])])
            ELSE finishTurn([S EXCEPT !.messages = m1])
  IN  Once(S0, step)

\* a loop that skips the block after the one it has handled
NextBlockSkip(bi) == bi + 2

\* the index of the block the loop looks at after the block at bi
NextBlock(bi) == bi + 1

RECURSIVE processBlocks(_)
(* for (const block of response.content), from block c.bi on, up to the    *)
(* next await or to the end of the turn.                                   *)
processBlocks(S0) ==
  LET step(S) ==
        LET c == S.c
        IN  IF c.bi > Len(c.content) THEN afterBlocks(S)
            ELSE LET block == c.content[c.bi]
                 IN  IF block.type = "text"
                     THEN processBlocks([S EXCEPT !.c = [c EXCEPT
                            !.assistantContent = Append(@, TextBlock(block.text)),
                            !.bi = NextBlock(c.bi)]])
                     ELSE handleToolUse(S, block)
  IN  Once(S0, step)

\* result.content to resultText
resultText(content) ==
  IF Len(content) > 0 /\ content[1].type = "text" THEN content[1].text ELSE Stringify(content)

(* getMcpTools between two servers: the span and the listTools request for *)
(* the next server, or, after the last one, the end of mcp.list_tools and, *)
(* back in chat(), the chat.model_call span and the first model call; a    *)
(* getMcpTools() that a caller invoked returns the tools.                  *)
listNext(S0) ==
  LET step(S) ==
        LET c == S.c
        IN  IF c.idx < Len(S.servers)
            THEN LET sp1 == startSpan(S.spans, "mcp.list_tools." \o S.conn[S.servers[c.idx + 1]].name,
                                      c.listSpan, "agent")
                 IN  [S EXCEPT !.spans = sp1,
                               !.c = [c EXCEPT !.pc = "list", !.idx = @ + 1, !.serverSpan = Len(sp1)]]
            ELSE LET sp1 == endSpan(setStatus(S.spans, c.listSpan, "ok", ""), c.listSpan)
                     sp2 == startSpan(sp1, "chat.model_call", c.span, "agent")
                 IN  IF c.op = "getMcpTools"
                     THEN [S EXCEPT !.spans = sp1, !.c = Settle(c, "ok", "")]
                     ELSE callModel([S EXCEPT !.spans = sp2,
                                              !.c = [c EXCEPT !.modelSpan = Len(sp2)]])
  IN  Once(S0, step)

\* a getMcpTools() that starts its span whether or not there is a session
getMcpToolsUnguarded(S) ==
  LET sp1 == startSpan(S.spans, "mcp.list_tools", S.sctx, "agent")
  IN  listNext([S EXCEPT !.spans = sp1, !.c = [S.c EXCEPT !.listSpan = Len(sp1)]])

\* getMcpTools() up to its first await: the guard, the mcp.list_tools span
\* under the session context, the first listTools request
getMcpTools(S0) ==
  LET step(S) ==
        IF S.sctx = 0 THEN methodThrow(S, SessionError)
        ELSE LET sp1 == startSpan(S.spans, "mcp.list_tools", S.sctx, "agent")
             IN  listNext([S EXCEPT !.spans = sp1, !.c = [S.c EXCEPT !.listSpan = Len(sp1)]])
  IN  Once(S0, step)

\* chat(userMessage) up to its first await
chat(S0) ==
  LET step(S) ==
        IF S.sctx = 0 THEN [S EXCEPT !.c = Settle(S.c, "error", SessionError)]
        ELSE LET sp1 == startSpan(S.spans, "chat.turn", S.sctx, "agent")
                 turn == Len(sp1)
                 m1 == Append(S.messages, [role |-> "user", content |-> <<TextBlock(S.c.input)>>])
             IN  getMcpTools([S EXCEPT !.spans = sp1, !.messages = m1,
                                       !.c = [S.c EXCEPT !.span = turn]])
  IN  Once(S0, step)

\* a listing that goes on to the next worker when one fails
listToolsReturnSkip(S) ==
  LET c == S.c
      server == S.servers[c.idx]
      msg == "Connection closed"
  IN  IF S.conn[server].state # "open"
      THEN listNext([S EXCEPT !.spans = endSpan(setStatus(S.spans, c.serverSpan, "error", msg),
                                               c.serverSpan)])
      ELSE LET names == S.conn[server].tools
               sp1 == endSpan(setStatus(S.spans, c.serverSpan, "ok", ""), c.serverSpan)
           IN  listNext([S EXCEPT !.spans = sp1, !.map = MapSetAll(S.map, names, server),
                                  !.c = [c EXCEPT !.tools = c.tools \o names]])

\* server.client.listTools() has answered
listToolsReturn(S0) ==
  LET step(S) ==
        LET c == S.c
            server == S.servers[c.idx]
            msg == "Connection closed"
        IN  IF S.conn[server].state # "open"
            THEN LET sp1 == endSpan(setStatus(S.spans, c.serverSpan, "error", msg), c.serverSpan)
                     sp2 == endSpan(setStatus(sp1, c.listSpan, "error", msg), c.listSpan)
                 IN  methodThrow([S EXCEPT !.spans = sp2], msg)
            ELSE LET names == S.conn[server].tools
                     sp1 == endSpan(setStatus(S.spans, c.serverSpan, "ok", ""), c.serverSpan)
                 IN  listNext([S EXCEPT !.spans = sp1, !.map = MapSetAll(S.map, names, server),
                                        !.c = [c EXCEPT !.tools = c.tools \o names]])
  IN  Once(S0, step)

\* messages.create has answered with this content
modelReturn(S0, content) ==
  LET step(S) ==
        LET c == S.c
            sp1 == setStatus(S.spans, c.modelSpan, "ok", "")
            reqs == SelectSeq(content, LAMBDA b : b.type = "tool_use")
            evs == [k \in 1..Len(reqs) |-> Ev("request", reqs[k].id)]
        IN  processBlocks([S EXCEPT !.spans = sp1,
                                    !.c = [c EXCEPT !.content = content, !.bi = 1,
                                                    !.assistantContent = <<>>, !.toolResults = <<>>,
                                                    !.ev = @ \o evs]])
  IN  Once(S0, step)

\* a failed model call that is issued again
modelThrowRetry(S) == callModel(S)

\* messages.create has thrown
modelThrow(S) == chatThrow(S, "model call failed")

\* callTool has resolved with this content: the rest of handleToolUse, then
\* the rest of the loop over the blocks, or the return to the caller that
\* invoked handleToolUse() itself
toolResolve(S0, content) ==
  LET step(S) ==
        LET c == S.c
            block == c.content[c.bi]
            text == resultText(content)
            sp1 == endSpan(setStatus(S.spans, c.toolSpan, "ok", ""), c.toolSpan)
        IN  IF c.op = "handleToolUse"
            THEN [S EXCEPT !.spans = sp1,
                           !.c = [Settle([c EXCEPT !.ev = Append(@, Ev("end", block.id))], "ok", "")
                                    EXCEPT !.output = text]]
            ELSE processBlocks([S EXCEPT !.spans = sp1,
              !.c = [c EXCEPT !.ev = Append(@, Ev("end", block.id)), !.reply = content,
                              !.assistantContent = Append(@, ToolUseBlock(block.id, block.name, block.input)),
                              !.toolResults = Append(@, ToolResultBlock(block.id, text)),
                              !.bi = NextBlock(c.bi)]])
  IN  Once(S0, step)

\* a rejected callTool whose message is handed to the model as the tool result
toolThrowAsResult(S, msg) == toolResolve(S, <<TextBlock(msg)>>)

\* callTool has rejected: the catch and finally of handleToolUse, then chat's
toolThrow(S0, msg) ==
  LET step(S) ==
        LET c == S.c
            block == c.content[c.bi]
            sp1 == endSpan(setStatus(S.spans, c.toolSpan, "error", msg), c.toolSpan)
        IN  methodThrow([S EXCEPT !.spans = sp1, !.c = [c EXCEPT !.ev = Append(@, Ev("end", block.id))]],
                        msg)
  IN  Once(S0, step)

\* the worker's spans of one request carry the dispatch span that sent it
TagRequest(before, after, req) ==
  [k \in 1..Len(after) |-> IF k > Len(before) THEN [after[k] EXCEPT !.req = req] ELSE after[k]]

(* server.client.callTool has answered.  A closed or dead connection       *)
(* rejects the request; otherwise the worker serves it, and what its       *)
(* handler throws reaches the caller as a rejected call with that message. *)
toolReturn(S0, http) ==
  LET step(S) ==
        LET c == S.c
            block == c.content[c.bi]
        IN  IF S.conn[c.server].state # "open" THEN toolThrow(S, "Connection closed")
            ELSE IF \A t \in 1..Len(S.conn[c.server].tools) : S.conn[c.server].tools[t] # block.name
            THEN toolThrow(S, "Tool not found")
            ELSE LET r == ServeTool(block.name, block.input, http, c.toolCtx, S.spans)
                     S1 == [S EXCEPT !.spans = TagRequest(S.spans, r.spans, c.toolSpan)]
                 IN  IF r.ok THEN toolResolve(S1, r.content) ELSE toolThrow(S1, r.msg)
  IN  Once(S0, step)

\* -------------------------------------------------------------- connect()
(* connectNext: the loop over the server files: a client for the next      *)
(* file and the await of client.connect, or the end of the connect span.   *)
connectNext(S0) ==
  LET step(S) ==
        LET c == S.c
        IN  IF c.idx < Len(ServerFiles)
            THEN [S EXCEPT !.conn = Append(@, [name |-> ServerFiles[c.idx + 1], state |-> "connecting",
                                                 tools |-> AdvertisedTools(ServerFiles[c.idx + 1])]),
                           !.c = [c EXCEPT !.pc = "connect", !.idx = @ + 1, !.server = Len(S.conn) + 1]]
            ELSE [S EXCEPT !.spans = endSpan(setStatus(S.spans, c.span, "ok", ""), c.span),
                           !.c = Settle(c, "ok", "")]
  IN  Once(S0, step)

\* connect() up to its first await
connect(S0) ==
  LET step(S) ==
        IF ~S.tracer THEN [S EXCEPT !.c = Settle(S.c, "error", "Tracer not initialized. Call initialize() first.")]
        ELSE LET sp1 == startSpan(S.spans, "chat.session", 0, "agent")
                 root == Len(sp1)
                 sp2 == setEvent(setTurns(sp1, root, 0), root, "start")
                 sp3 == startSpan(sp2, "connect", root, "agent")
             IN  connectNext([S EXCEPT !.spans = sp3, !.sspan = root, !.sctx = root,
                                       !.c = [S.c EXCEPT !.span = Len(sp3)]])
  IN  Once(S0, step)

\* client.connect(transport) has settled
connectReturn(S0, ok) ==
  LET step(S) ==
        LET c == S.c
            msg == "Connection failed"
        IN  IF ok
            THEN connectNext([S EXCEPT !.conn[c.server].state = "open",
                                       !.servers = Append(@, c.server)])
            ELSE [S EXCEPT !.conn[c.server].state = "failed",
                           !.spans = endSpan(setStatus(S.spans, c.span, "error", msg), c.span),
                           !.c = Settle(c, "error", msg)]
  IN  Once(S0, step)

\* -------------------------------------------------------------- cleanup()
\* a finally block that ends the session span and keeps both fields
cleanupFinallyKeep(S, result, err) ==
  LET c == S.c
      sp1 == endSpan(S.spans, c.span)
  IN  IF S.sspan # 0
      THEN [S EXCEPT !.spans = endSpan(setStatus(setEvent(sp1, S.sspan, "end"), S.sspan, "ok", ""),
                                       S.sspan),
                     !.c = [Settle(c, result, err) EXCEPT !.ended = S.sspan]]
      ELSE [S EXCEPT !.spans = sp1, !.c = Settle(c, result, err)]

(* The finally block of cleanup(): the cleanup span is ended and, when     *)
(* this.sessionSpan is set, the session span is ended and both fields are  *)
(* cleared.                                                                *)
cleanupFinally(S, result, err) ==
  LET c == S.c
      sp1 == endSpan(S.spans, c.span)
  IN  IF S.sspan # 0
      THEN [S EXCEPT !.spans = endSpan(setStatus(setEvent(sp1, S.sspan, "end"), S.sspan, "ok", ""),
                                       S.sspan),
                     !.sspan = 0, !.sctx = 0,
                     !.c = [Settle(c, result, err) EXCEPT !.ended = S.sspan]]
      ELSE [S EXCEPT !.spans = sp1, !.c = Settle(c, result, err)]

\* the loop over this.servers: close() of the next one, or the end of the try
closeNext(S) ==
  LET c == S.c
  IN  IF c.idx < Len(S.servers)
      THEN [S EXCEPT !.c = [c EXCEPT !.pc = "close", !.idx = @ + 1]]
      ELSE cleanupFinally([S EXCEPT !.spans = setStatus(S.spans, c.span, "ok", "")], "ok", "")

\* cleanup() up to its first await; this.tracer undefined is a TypeError
cleanup(S) ==
  IF ~S.tracer THEN [S EXCEPT !.c = Settle(S.c, "error", "TypeError")]
  ELSE LET sp1 == startSpan(S.spans, "cleanup", 0, "agent")
       IN  closeNext([S EXCEPT !.spans = sp1, !.c = [S.c EXCEPT !.span = Len(sp1)]])

\* server.client.close() has settled
closeReturn(S, ok) ==
  LET c == S.c
      msg == "close failed"
  IN  IF ok
      THEN closeNext([S EXCEPT !.conn[S.servers[c.idx]].state = "closed"])
      ELSE cleanupFinally([S EXCEPT !.spans = setStatus(S.spans, c.span, "error", msg)],
                          "error", msg)

\* ------------------------------------------------------------ environment
ToolKinds == {"add", "div0", "fetch", "bogus"}
BlockKinds == {"text"} \cup ToolKinds

NoInput == [operation |-> "", a |-> 0, b |-> 0, url |-> ""]

\* a block the model returns; id is unique over the behaviour
BlockOf(kind, id) ==
  IF kind = "text" THEN TextBlock("t" \o IntToStr(id))
  ELSE IF kind = "add"
  THEN ToolUseBlock(id, "calculate", [NoInput EXCEPT !.operation = "add", !.a = 2, !.b = 3])
  ELSE IF kind = "div0"
  THEN ToolUseBlock(id, "calculate", [NoInput EXCEPT !.operation = "divide", !.a = 1, !.b = 0])
  ELSE IF kind = "fetch"
  THEN ToolUseBlock(id, "fetch", [NoInput EXCEPT !.url = "http://a"])
  ELSE ToolUseBlock(id, "bogus", NoInput)

(* The responses the model may give, as the kinds of their blocks: text    *)
(* only, one tool request of each kind, two requests, text around a        *)
(* request.                                                                *)
Shapes ==
  {<<"text">>, <<"text", "text">>, <<"add">>, <<"div0">>, <<"fetch">>, <<"bogus">>,
   <<"add", "fetch">>, <<"text", "add">>}

HasToolUse(shape) == \E k \in 1..Len(shape) : shape[k] \in ToolKinds

\* response.stop_reason as the model sets it for a response of this shape
StopReason(shape) == IF HasToolUse(shape) THEN "tool_use" ELSE "end_turn"

\* the responses the model gives in the interactive process
CliShapes == {<<"text">>, <<"add">>, <<"div0">>}

\* the content of the response to model call mc of call i
ContentOf(shape, i, mc) ==
  [k \in 1..Len(shape) |-> BlockOf(shape[k], (i * 10 + mc) * 10 + k)]

HttpOk == [ok |-> TRUE, html |-> "<h1>a</h1>"]
HttpFail == [ok |-> FALSE, html |-> ""]

\* ---------------------------------------------------------------- index.ts
(* The interactive process.  pc is where main()/prompt() stands: "off"     *)
(* (no interactive process), "start", "connecting" (await agent.connect),  *)
(* "question" (rl.question waits for a line), "chatting" (await agent.chat)*)
(* or "stopped"; call is the agent call it awaits.  cpc is where cleanup() *)
(* stands: "idle", "awaiting" (await agent.cleanup(), call cleanupCall) or *)
(* "done".  sdk is the SIGTERM handler of tracing.ts: "none" (not          *)
(* registered), "registered", "shutting" (sdk.shutdown() runs).  exit is   *)
(* the exit code, -1 while the process runs; exitBy says which             *)
(* process.exit call ended it: "main", "timer" or "sdk".                   *)
CliIdle ==
  [apiKey |-> FALSE, isClosing |-> FALSE, agent |-> FALSE, rl |-> "open", pc |-> "off",
   call |-> 0, cpc |-> "idle", cleanupCall |-> 0, timer |-> "unset", timers |-> 0,
   sdk |-> "none", exit |-> -1, exitBy |-> "", lines |-> 0, signals |-> 0]

Alive == cli.exit = -1

UpperCase == <<"E", "X", "I", "T", "Q", "U">>
LowerCase == <<"e", "x", "i", "t", "q", "u">>

\* toLowerCase on one character, for the letters the input lines use
LowerChar(ch) ==
  IF \E k \in 1..Len(UpperCase) : UpperCase[k] = ch
  THEN LowerCase[CHOOSE k \in 1..Len(UpperCase) : UpperCase[k] = ch]
  ELSE ch

\* input.toLowerCase(); a line is the sequence of its characters
toLowerCase(line) == [k \in 1..Len(line) |-> LowerChar(line[k])]

RECURSIVE LineToStr(_)
LineToStr(line) == IF line = <<>> THEN "" ELSE Head(line) \o LineToStr(Tail(line))

\* a test that compares the line as it was typed
IsExitCommandExact(line) == line = <<"e", "x", "i", "t">> \/ line = <<"q", "u", "i", "t">>

\* the test of the rl.question callback
IsExitCommand(line) ==
  toLowerCase(line) = <<"e", "x", "i", "t">> \/ toLowerCase(line) = <<"q", "u", "i", "t">>

\* the lines a user types: the commands in three spellings, and the empty
\* line, which is a message like any other
Lines == {<<"e", "x", "i", "t">>, <<"Q", "U", "I", "T">>, <<"E", "x", "I", "t">>, <<>>}

\* an exit that loses its code
processExitZero(cl, code, by) == [cl EXCEPT !.exit = 0, !.exitBy = by]

\* process.exit(code)
processExit(cl, code, by) == [cl EXCEPT !.exit = code, !.exitBy = by]

\* prompt(): nothing when isClosing, else rl.question
prompt(cl) == IF cl.isClosing THEN [cl EXCEPT !.pc = "stopped"] ELSE [cl EXCEPT !.pc = "question"]

\* a loop that gives up when a turn fails
afterChatExitOnError(cl, result) ==
  IF result = "error" THEN processExit(cl, 1, "main") ELSE prompt(cl)

\* the rl.question callback after await agent.chat(input): the response is
\* printed, or the error is caught and reported; prompt() in both cases
afterChat(cl, result) == prompt(cl)

\* cleanup() of index.ts after its await: rl.close() and the exit timer
cleanupRest(cl) ==
  [cl EXCEPT !.cpc = "done", !.rl = "closed", !.timer = "armed", !.timers = @ + 1]

\* a cleanup() without the isClosing guard
cleanupEntersAlways(cl) == TRUE

\* whether cleanup() goes past its isClosing guard
cleanupEnters(cl) == ~cl.isClosing

(* A state of the whole process: the interactive part and the agent.       *)
Proc(cl, S) == [cl |-> cl, S |-> S]

\* the agent method op is called with a fresh call record
invoke(S, op, input) ==
  LET c == NewCall(op, input)
      S0 == [S EXCEPT !.c = c]
  IN  IF op = "connect" THEN connect(S0)
      ELSE IF op = "chat" THEN chat(S0)
      ELSE cleanup(S0)

(* cleanup() of index.ts up to its await: the guard, isClosing, the call   *)
(* of agent.cleanup(); when that promise is already settled the rest runs  *)
(* before any other event.  P.S.c is the agent call made, if any.          *)
indexCleanup(P) ==
  IF ~cleanupEnters(P.cl) THEN P
  ELSE LET cl1 == [P.cl EXCEPT !.isClosing = TRUE]
       IN  IF cl1.agent
           THEN LET S1 == invoke(P.S, "cleanup", "")
                    cl2 == [cl1 EXCEPT !.cpc = "awaiting", !.cleanupCall = Len(calls) + 1]
                IN  Proc(IF S1.c.result # "pending" THEN cleanupRest(cl2) ELSE cl2, S1)
           ELSE Proc(cleanupRest(cl1), P.S)

\* the SIGTERM listener of tracing.ts: sdk.shutdown() is started
tracingSigterm(cl) == IF cl.sdk = "registered" THEN [cl EXCEPT !.sdk = "shutting"] ELSE cl

\* ----------------------------------------------------------------- actions
\* the session span that is live in the current state, 0 for none
LiveSession == IF sessionSpan # 0 /\ spans[sessionSpan].ends = 0 THEN sessionSpan ELSE 0

\* the spans a step started carry the session that was live when they started
TagSession(after, sspan) ==
  [k \in 1..Len(after) |->
     IF k > Len(spans)
     THEN [after[k] EXCEPT !.sess = IF sspan # 0 /\ sspan < k THEN sspan ELSE LiveSession]
     ELSE after[k]]

Install(i, S0) == \E S \in {S0} :
  /\ tracer' = S.tracer
  /\ servers' = S.servers
  /\ toolServerMap' = S.map
  /\ messages' = S.messages
  /\ sessionSpan' = S.sspan
  /\ sessionContext' = S.sctx
  /\ conversationHistory' = S.hist
  /\ spans' = TagSession(S.spans, S.sspan)
  /\ conn' = S.conn
  /\ modelCalls' = S.modelCalls
  /\ calls' = IF i > Len(calls) THEN Append(calls, S.c) ELSE [calls EXCEPT ![i] = S.c]

NoCall == NewCall("", "")

Pending(i) == i \in 1..Len(calls) /\ calls[i].result = "pending"

(* The callers of the agent's methods when there is no interactive         *)
(* process: "off" is one caller that awaits each call it makes,            *)
(* "callers" is several callers that do not wait for each other.           *)
CallerModes == {"off", "callers"}

\* no call is running that the caller would have to wait for
CallerIdle == cli.pc = "callers" \/ \A j \in 1..Len(calls) : calls[j].result # "pending"

\* agent.initialize()
Initialize ==
  /\ cli.pc \in CallerModes /\ ~wk.active
  /\ ~tracer
  /\ tracer' = TRUE
  /\ UNCHANGED <<servers, toolServerMap, messages, sessionSpan, sessionContext,
                 conversationHistory, spans, conn, calls, modelCalls, cli, wk>>

CallConnect ==
  /\ cli.pc \in CallerModes /\ ~wk.active
  /\ Len(calls) < MaxCalls /\ CallerIdle
  /\ Install(Len(calls) + 1, invoke(Bundle(NoCall), "connect", ""))
  /\ UNCHANGED <<cli, wk>>

CallChat ==
  /\ cli.pc \in CallerModes /\ ~wk.active
  /\ Len(calls) < MaxCalls /\ CallerIdle
  /\ Install(Len(calls) + 1, invoke(Bundle(NoCall), "chat", "q" \o IntToStr(Len(calls) + 1)))
  /\ UNCHANGED <<cli, wk>>

CallCleanup ==
  /\ cli.pc \in CallerModes /\ ~wk.active
  /\ Len(calls) < MaxCalls /\ CallerIdle
  /\ Install(Len(calls) + 1, invoke(Bundle(NoCall), "cleanup", ""))
  /\ UNCHANGED <<cli, wk>>

\* agent.getMcpTools(), called by the caller itself
CallGetMcpTools ==
  /\ cli.pc \in CallerModes /\ ~wk.active
  /\ Len(calls) < MaxCalls /\ CallerIdle
  /\ Install(Len(calls) + 1, getMcpTools(Bundle(NewCall("getMcpTools", ""))))
  /\ UNCHANGED <<cli, wk>>

\* agent.handleToolUse(toolUse), called by the caller itself with a request
\* of this kind
CallHandleToolUse(kind) ==
  /\ cli.pc \in CallerModes /\ ~wk.active
  /\ Len(calls) < MaxCalls /\ CallerIdle
  /\ LET block == BlockOf(kind, (Len(calls) + 1) * 100 + 1)
         c == [NewCall("handleToolUse", kind) EXCEPT !.content = <<block>>, !.bi = 1]
     IN  Install(Len(calls) + 1, handleToolUse(Bundle(c), block))
  /\ UNCHANGED <<cli, wk>>

ConnectReturn(i) ==
  /\ Alive /\ Pending(i) /\ calls[i].pc = "connect"
  /\ \E ok \in BOOLEAN : Install(i, connectReturn(Bundle(calls[i]), ok))
  /\ UNCHANGED <<cli, wk>>

ListToolsReturn(i) ==
  /\ Alive /\ Pending(i) /\ calls[i].pc = "list"
  /\ Install(i, listToolsReturn(Bundle(calls[i])))
  /\ UNCHANGED <<cli, wk>>

ModelReturn(i) ==
  /\ Alive /\ Pending(i) /\ calls[i].pc = "model"
  /\ \/ \E shape \in (IF cli.pc = "off" THEN Shapes ELSE CliShapes) :
          /\ HasToolUse(shape) => modelCalls < MaxModelCalls
          /\ Install(i, modelReturn(Bundle([calls[i] EXCEPT !.stop = StopReason(shape)]),
                                    ContentOf(shape, i, calls[i].mc)))
     \/ Install(i, modelThrow(Bundle([calls[i] EXCEPT !.ev = Append(@, Ev("fail", calls[i].mc))])))
  /\ UNCHANGED <<cli, wk>>

\* messages.create answers with tool requests and stop_reason end_turn
ModelReturnEndTurn(i) ==
  /\ Alive /\ Pending(i) /\ calls[i].pc = "model"
  /\ \E shape \in {sh \in Shapes : HasToolUse(sh)} :
       /\ modelCalls < MaxModelCalls
       /\ Install(i, modelReturn(Bundle([calls[i] EXCEPT !.stop = "end_turn"]),
                                 ContentOf(shape, i, calls[i].mc)))
  /\ UNCHANGED <<cli, wk>>

ToolReturn(i) ==
  /\ Alive /\ Pending(i) /\ calls[i].pc = "tool"
  /\ \E http \in (IF calls[i].content[calls[i].bi].name = "fetch" THEN {HttpOk, HttpFail}
                  ELSE {HttpOk}) :
       Install(i, toolReturn(Bundle(calls[i]), http))
  /\ UNCHANGED <<cli, wk>>

CloseReturn(i) ==
  /\ Alive /\ Pending(i) /\ calls[i].pc = "close"
  /\ \E ok \in BOOLEAN : Install(i, closeReturn(Bundle(calls[i]), ok))
  /\ UNCHANGED <<cli, wk>>

\* a worker process dies
WorkerDown(k) ==
  /\ Alive /\ k \in 1..Len(conn) /\ conn[k].state = "open"
  /\ Cardinality({j \in 1..Len(conn) : conn[j].state = "down"}) < MaxDown
  /\ conn' = [conn EXCEPT ![k].state = "down"]
  /\ UNCHANGED <<tracer, servers, toolServerMap, messages, sessionSpan, sessionContext,
                 conversationHistory, spans, calls, modelCalls, cli, wk>>

\* the content blocks a worker may put into a tool result
ReplyBlocks == {TextBlock("x"), TextBlock("y"), ImageBlock}

RECURSIVE SeqsUpTo(_, _)
\* the sequences over set of length up to n
SeqsUpTo(set, n) ==
  IF n = 0 THEN {<<>>}
  ELSE LET shorter == SeqsUpTo(set, n - 1)
       IN  shorter \cup {Append(q, x) : q \in shorter, x \in set}

\* callTool resolves with a result whose content is any list of blocks
ToolReturnContent(i) ==
  /\ Alive /\ Pending(i) /\ calls[i].pc = "tool"
  /\ conn[calls[i].server].state = "open"
  /\ \E content \in SeqsUpTo(ReplyBlocks, MaxBlocks) :
       Install(i, toolResolve(Bundle(calls[i]), content))
  /\ UNCHANGED <<cli, wk>>

\* a worker stops advertising the last tool of its list
ToolRemoved(k) ==
  /\ Alive /\ k \in 1..Len(conn) /\ conn[k].state = "open" /\ conn[k].tools # <<>>
  /\ conn' = [conn EXCEPT ![k].tools = SubSeq(@, 1, Len(@) - 1)]
  /\ UNCHANGED <<tracer, servers, toolServerMap, messages, sessionSpan, sessionContext,
                 conversationHistory, spans, calls, modelCalls, cli, wk>>

\* the responses of a model that keeps asking for tools
LoopShapes == {<<"text">>, <<"add", "add">>}

\* messages.create answers; the model asks for tools as often as it likes,
\* up to MaxIterations times in one turn
ModelReturnLoop(i) ==
  /\ Alive /\ Pending(i) /\ calls[i].pc = "model"
  /\ \E shape \in LoopShapes :
       /\ HasToolUse(shape) => calls[i].mc <= MaxIterations
       /\ Install(i, modelReturn(Bundle([calls[i] EXCEPT !.stop = StopReason(shape)]),
                                 ContentOf(shape, i, calls[i].mc)))
  /\ UNCHANGED <<cli, wk>>

AgentStep ==
  \/ \E i \in 1..Len(calls) : ConnectReturn(i)
  \/ \E i \in 1..Len(calls) : ListToolsReturn(i)
  \/ \E i \in 1..Len(calls) : ModelReturn(i)
  \/ \E i \in 1..Len(calls) : ToolReturn(i)
  \/ \E i \in 1..Len(calls) : CloseReturn(i)
  \/ \E k \in 1..Len(conn) : WorkerDown(k)

\* main() up to its first await that waits for I/O: the credential check,
\* new ClaudeAgent, initialize() (which registers the SIGTERM listener of
\* tracing.ts), the call of connect()
CliMain ==
  /\ Alive /\ cli.pc = "start"
  /\ IF ~cli.apiKey
     THEN /\ cli' = processExit(cli, 1, "main")
          /\ UNCHANGED agentVars
     ELSE /\ Install(Len(calls) + 1, invoke([Bundle(NoCall) EXCEPT !.tracer = TRUE], "connect", ""))
          /\ cli' = [cli EXCEPT !.agent = TRUE, !.sdk = "registered", !.pc = "connecting",
                                !.call = Len(calls) + 1]
  /\ UNCHANGED wk

\* await agent.connect() is over: the first prompt, or exit code 1
CliConnected ==
  /\ Alive /\ cli.pc = "connecting" /\ ~Pending(cli.call)
  /\ cli' = IF calls[cli.call].result = "ok" THEN prompt(cli) ELSE processExit(cli, 1, "main")
  /\ UNCHANGED <<agentVars, wk>>

\* the rl.question callback runs with a line of input
CliLine(line) ==
  /\ Alive /\ cli.pc = "question" /\ cli.rl = "open" /\ cli.lines < MaxLines
  /\ LET cl == [cli EXCEPT !.lines = @ + 1]
     IN  IF IsExitCommand(line)
         THEN LET P == indexCleanup(Proc([cl EXCEPT !.pc = "stopped"], Bundle(NoCall)))
              IN  /\ cli' = P.cl
                  /\ IF P.S.c = NoCall THEN UNCHANGED agentVars ELSE Install(Len(calls) + 1, P.S)
         ELSE LET S == invoke(Bundle(NoCall), "chat", LineToStr(line))
              IN  /\ Install(Len(calls) + 1, S)
                  /\ cli' = IF S.c.result # "pending" THEN afterChat(cl, S.c.result)
                            ELSE [cl EXCEPT !.pc = "chatting", !.call = Len(calls) + 1]
  /\ UNCHANGED wk

\* await agent.chat(input) is over, with a response or an error: prompt()
CliChatSettled ==
  /\ Alive /\ cli.pc = "chatting" /\ ~Pending(cli.call)
  /\ cli' = afterChat(cli, calls[cli.call].result)
  /\ UNCHANGED <<agentVars, wk>>

\* SIGINT or SIGTERM: the listeners run in the order they were registered,
\* cleanup of index.ts, then (SIGTERM) the listener of tracing.ts
CliSignal(sig) ==
  /\ Alive /\ cli.pc # "off" /\ cli.pc # "start" /\ cli.signals < MaxSignals
  /\ LET P == indexCleanup(Proc([cli EXCEPT !.signals = @ + 1], Bundle(NoCall)))
     IN  /\ cli' = IF sig = "SIGTERM" THEN tracingSigterm(P.cl) ELSE P.cl
         /\ IF P.S.c = NoCall THEN UNCHANGED agentVars ELSE Install(Len(calls) + 1, P.S)
  /\ UNCHANGED wk

\* await agent.cleanup() is over, resolved or rejected: rl.close(), setTimeout
CliCleanupSettled ==
  /\ Alive /\ cli.cpc = "awaiting" /\ ~Pending(cli.cleanupCall)
  /\ cli' = cleanupRest(cli)
  /\ UNCHANGED <<agentVars, wk>>

\* the 1000 ms timer of cleanup() fires: process.exit(0)
CliTimer ==
  /\ Alive /\ cli.timer = "armed"
  /\ cli' = processExit([cli EXCEPT !.timer = "fired"], 0, "timer")
  /\ UNCHANGED <<agentVars, wk>>

\* sdk.shutdown() has settled: the finally of the tracing.ts listener exits
CliSdkExit ==
  /\ Alive /\ cli.sdk = "shutting"
  /\ cli' = processExit(cli, 0, "sdk")
  /\ UNCHANGED <<agentVars, wk>>

CliStep ==
  \/ CliMain
  \/ CliConnected
  \/ \E line \in Lines : CliLine(line)
  \/ CliChatSettled
  \/ \E sig \in {"SIGINT", "SIGTERM"} : CliSignal(sig)
  \/ CliCleanupSettled
  \/ CliTimer
  \/ CliSdkExit

\* ------------------------------------------------- direct worker invocation
NoWork == [active |-> FALSE, name |-> "", input |-> NoInput, http |-> HttpOk, results |-> <<>>]

Operands == 0..MaxOperand

\* the tools/call requests a client may send to a worker
WorkerRequests ==
  {[NoWork EXCEPT !.active = TRUE, !.name = "calculate",
                  !.input = [NoInput EXCEPT !.operation = op, !.a = a, !.b = b]] :
     op \in Operations, a \in Operands, b \in Operands}
  \cup
  {[NoWork EXCEPT !.active = TRUE, !.name = "fetch", !.input = [NoInput EXCEPT !.url = "http://a"],
                  !.http = h] :
     h \in {HttpOk, HttpFail, [ok |-> TRUE, html |-> "<p>b</p>"]}}

\* what a request may carry at _meta.__traceContext
TraceContexts ==
  {NoTraceContext,
   [NoTraceContext EXCEPT !.kind = "falsy"],
   [kind |-> "object", traceId |-> 7, spanId |-> 9, traceFlags |-> 1, isRemote |-> FALSE],
   [kind |-> "object", traceId |-> 7, spanId |-> 9, traceFlags |-> 0, isRemote |-> TRUE],
   [kind |-> "object", traceId |-> 0, spanId |-> 0, traceFlags |-> 0, isRemote |-> FALSE],
   [kind |-> "object", traceId |-> 7, spanId |-> 0, traceFlags |-> 1, isRemote |-> FALSE]}

WellFormed(tc) == tc.kind = "object" /\ tc.traceId # 0 /\ tc.spanId # 0

\* a client calls the worker's tool with this trace context
WorkerCall(tc) ==
  /\ wk.active /\ Len(wk.results) < MaxWorkerCalls
  /\ \A k \in 1..Len(wk.results) : wk.results[k].tc # tc
  /\ LET r == ServeTool(wk.name, wk.input, wk.http, tc, spans)
     IN  /\ spans' = r.spans
         /\ wk' = [wk EXCEPT !.results = Append(@, [tc |-> tc, ok |-> r.ok, content |-> r.content,
                                                    msg |-> r.msg,
                                                    started |-> Len(r.spans) - Len(spans)])]
  /\ UNCHANGED <<tracer, servers, toolServerMap, messages, sessionSpan, sessionContext,
                 conversationHistory, conn, calls, modelCalls, cli>>

\* ------------------------------------------------------------ specifications
InitAgent ==
  /\ tracer = FALSE
  /\ servers = <<>>
  /\ toolServerMap = {}
  /\ messages = <<>>
  /\ sessionSpan = 0
  /\ sessionContext = 0
  /\ conversationHistory = <<>>
  /\ spans = <<>>
  /\ conn = <<>>
  /\ calls = <<>>
  /\ modelCalls = 0

\* a constructed ClaudeAgent and a caller of its methods
Init == InitAgent /\ cli = CliIdle /\ wk = NoWork

Next == Initialize \/ CallConnect \/ CallChat \/ CallCleanup \/ AgentStep

Spec == Init /\ [][Next]_vars

\* the process started by index.ts, with or without ANTHROPIC_API_KEY
InitCli ==
  /\ InitAgent
  /\ cli \in {[CliIdle EXCEPT !.pc = "start", !.apiKey = k] : k \in BOOLEAN}
  /\ wk = NoWork

NextCli == CliStep \/ AgentStep

SpecCli == InitCli /\ [][NextCli]_vars

\* a worker and one request, sent with different trace contexts
InitWorker == InitAgent /\ cli = CliIdle /\ wk \in WorkerRequests

NextWorker == \E tc \in TraceContexts : WorkerCall(tc)

SpecWorker == InitWorker /\ [][NextWorker]_vars

\* a constructed ClaudeAgent whose methods are called without awaiting them
InitCallers == InitAgent /\ cli = [CliIdle EXCEPT !.pc = "callers"] /\ wk = NoWork

SpecCallers == InitCallers /\ [][Next]_vars

\* the single caller, with workers whose tool lists change while they run
NextTools == Next \/ \E k \in 1..Len(conn) : ToolRemoved(k)

SpecTools == Init /\ [][NextTools]_vars

\* the single caller, with a model that may end its turn in a response that
\* requests tools
NextStop == Next \/ \E i \in 1..Len(calls) : ModelReturnEndTurn(i)

SpecStop == Init /\ [][NextStop]_vars

\* the single caller, with workers that answer a tool call with any content
NextReply == Next \/ \E i \in 1..Len(calls) : ToolReturnContent(i)

SpecReply == Init /\ [][NextReply]_vars

\* the single caller, who also calls getMcpTools() and handleToolUse() itself
NextMethods ==
  \/ Next
  \/ CallGetMcpTools
  \/ \E kind \in {"add", "bogus"} : CallHandleToolUse(kind)

SpecMethods == Init /\ [][NextMethods]_vars

(* The single caller of connect() and chat(), a model that answers every   *)
(* call and workers that stay up; an await that can be answered is         *)
(* answered in the end.                                                    *)
NextLoop ==
  \/ Initialize
  \/ CallConnect
  \/ CallChat
  \/ \E i \in 1..Len(calls) : ConnectReturn(i)
  \/ \E i \in 1..Len(calls) : ListToolsReturn(i)
  \/ \E i \in 1..Len(calls) : ModelReturnLoop(i)
  \/ \E i \in 1..Len(calls) : ToolReturn(i)

Answered ==
  /\ WF_vars(\E i \in 1..Len(calls) : ConnectReturn(i))
  /\ WF_vars(\E i \in 1..Len(calls) : ListToolsReturn(i))
  /\ WF_vars(\E i \in 1..Len(calls) : ModelReturnLoop(i))
  /\ WF_vars(\E i \in 1..Len(calls) : ToolReturn(i))

SpecLoop == Init /\ [][NextLoop]_vars /\ Answered

\* ---------------------------------------------------------------- properties
ChatCalls == {i \in 1..Len(calls) : calls[i].op = "chat"}
CleanupCalls == {i \in 1..Len(calls) : calls[i].op = "cleanup"}
ConnectCalls == {i \in 1..Len(calls) : calls[i].op = "connect"}
SpanIds == 1..Len(spans)
Roots == {r \in SpanIds : spans[r].name = "chat.session"}
IsRoot(r) == r \in SpanIds /\ spans[r].name = "chat.session"
NonePending == \A i \in 1..Len(calls) : calls[i].result # "pending"
WorkerOperations == {"calculator.operation", "fetch.operation"}
ToolNames == {"calculate", "fetch", "bogus"}
DispatchName == [t \in ToolNames |-> "mcp_tool." \o t]
NoServerMessage == [t \in ToolNames |-> "No server found for tool: " \o t]
QueryName == [n \in {ServerFiles[k] : k \in 1..Len(ServerFiles)} |-> "mcp.list_tools." \o n]

\* the ids of the events of kind e in an event list, in order
IdsOf(ev, e) ==
  LET sel == SelectSeq(ev, LAMBDA x : x.e = e)
  IN  [k \in 1..Len(sel) |-> sel[k].id]

(* C1: within a chat() turn the tool requests are dispatched one at a time *)
(* in the order the model gave them: a dispatch that has started is either *)
(* the one in flight or has ended before anything else (another dispatch,  *)
(* the next model call, the return) happens; and a turn that returned a    *)
(* response made exactly the dispatches the model asked for, in that       *)
(* order, all of them ended.                                               *)
DispatchesAreSequential ==
  \A i \in ChatCalls :
    LET ev == calls[i].ev
    IN  /\ \A p \in 1..Len(ev) :
             ev[p].e = "start" =>
               IF p = Len(ev) THEN calls[i].pc = "tool" /\ calls[i].result = "pending"
               ELSE ev[p + 1] = Ev("end", ev[p].id)
        /\ calls[i].result = "ok" =>
             /\ IdsOf(ev, "start") = IdsOf(ev, "request")
             /\ IdsOf(ev, "end") = IdsOf(ev, "request")

\* a turn that returned after a response with two tool requests
TwoDispatchesDone ==
  \E i \in ChatCalls :
    /\ calls[i].result = "ok"
    /\ \E p \in 1..(Len(calls[i].ev) - 1) :
         calls[i].ev[p].e = "request" /\ calls[i].ev[p + 1].e = "request"
    /\ Len(IdsOf(calls[i].ev, "end")) >= 2

(* C2: a worker returns the same result for a request whether the request  *)
(* carries a well-formed trace context or none.                            *)
ContextNeverChangesResult ==
  \A j \in 1..Len(wk.results) : \A k \in 1..Len(wk.results) :
    (WellFormed(wk.results[j].tc) /\ wk.results[k].tc.kind = "absent") =>
      /\ wk.results[j].ok = wk.results[k].ok
      /\ wk.results[j].content = wk.results[k].content
      /\ wk.results[j].msg = wk.results[k].msg

UnknownToolFailsLocally ==
  \A d \in SpanIds :
    (/\ \E t \in ToolNames : spans[d].name = DispatchName[t]
     /\ \/ spans[d].name = DispatchName["bogus"]
        \/ \E t \in ToolNames : spans[d].msg = NoServerMessage[t]) =>
      LET root == spans[d].parent
      IN  /\ \E t \in ToolNames :
               /\ spans[d].name = DispatchName[t]
               /\ spans[d].msg = NoServerMessage[t]
          /\ spans[d].status = "error" /\ spans[d].ends = 1
          /\ \A w \in SpanIds : spans[w].req # d
          /\ \E i \in ChatCalls :
               /\ calls[i].result = "error" /\ calls[i].err = spans[d].msg
               /\ spans[calls[i].span].status = "error"
          /\ IsRoot(root)
          /\ CleanupCalls = {} => spans[root].ends = 0 /\ sessionContext # 0 /\ sessionSpan # 0

\* a turn failed on an unregistered tool and a later turn was accepted and
\* returned a response
TurnAfterUnknownTool ==
  \E i \in ChatCalls : \E j \in ChatCalls :
    /\ i < j
    /\ calls[i].result = "error" /\ calls[i].err = "No server found for tool: bogus"
    /\ calls[j].span # 0 /\ calls[j].result = "ok"

OneTracePerSession ==
  \A k \in SpanIds :
    spans[k].sess # 0 => spans[k].trace = spans[spans[k].sess].trace

(* C7: the operation span a worker starts for a dispatch has the traceId   *)
(* and the trace flags of the dispatch span, and the dispatch span itself  *)
(* (not the parent of the dispatch span) as its parent.                    *)
WorkerSpanUnderDispatch ==
  \A w \in SpanIds :
    (spans[w].name \in WorkerOperations /\ spans[w].req # 0) =>
      LET d == spans[w].req
      IN  /\ spans[d].svc = "agent"
          /\ spans[w].svc # "agent"
          /\ spans[w].trace = spans[d].trace
          /\ spans[w].parent = d
          /\ spans[w].parent # spans[d].parent
          /\ spans[w].flags = spans[d].flags

\* a worker has served a dispatch and started its operation span
WorkerServedDispatch ==
  \E w \in SpanIds : spans[w].name \in WorkerOperations /\ spans[w].req # 0

\* the outcome of the worker's tool body alone on the request wk
BodyResult ==
  IF wk.name = "calculate"
  THEN LET r == calculateBody(wk.input.operation, wk.input.a, wk.input.b)
       IN  [ok |-> r.ok, content |-> IF r.ok THEN <<TextBlock(r.text)>> ELSE <<>>]
  ELSE [ok |-> wk.http.ok,
        content |-> IF wk.http.ok THEN <<TextBlock(turndown(wk.http.html))>> ELSE <<>>]

(* C8: a worker that receives a request without a well-formed trace        *)
(* context (absent, or not a valid context) runs the tool body, starts no  *)
(* span and returns the body's result.                                     *)
NoContextRunsUntraced ==
  \A k \in 1..Len(wk.results) :
    ~WellFormed(wk.results[k].tc) =>
      /\ wk.results[k].started = 0
      /\ wk.results[k].ok = BodyResult.ok
      /\ wk.results[k].content = BodyResult.content

\* every connection the agent holds is closed
AllClosed == \A k \in 1..Len(servers) : conn[servers[k]].state = "closed"

(* C9: on shutdown the connections to the workers are closed first, then   *)
(* the session span is ended, once, and the process exits only afterwards, *)
(* through the timer that cleanup() arms.                                  *)
ShutdownInOrder ==
  /\ \A r \in Roots : spans[r].ends <= 1 /\ (spans[r].ends = 1 => AllClosed)
  /\ (cli.isClosing /\ cli.exit # -1) =>
       /\ cli.exitBy = "timer"
       /\ AllClosed
       /\ \A r \in Roots : spans[r].ends = 1

(* C10: however many times shutdown is requested (signals, exit command),  *)
(* agent.cleanup() is called at most once, the exit timer is armed at most *)
(* once and no session span is ended twice.                                *)
ShutdownRunsOnce ==
  /\ Cardinality(CleanupCalls) <= 1
  /\ cli.timers <= 1
  /\ \A r \in Roots : spans[r].ends <= 1
  /\ cli.isClosing = (cli.cpc # "idle")

\* a second signal arrived after shutdown had begun and run through
SecondSignalIgnored ==
  /\ Len(servers) = Len(ServerFiles)
  /\ cli.signals >= 2
  /\ cli.isClosing
  /\ Cardinality(CleanupCalls) = 1
  /\ cli.timers = 1

(* C11: a model call that throws is the last thing its chat() turn does:   *)
(* it is not issued again, the turn is rejected with the error, the        *)
(* chat.turn and chat.model_call spans are ended with status error, and    *)
(* the session span and context stay in place (nothing but cleanup() ends  *)
(* the session span).                                                      *)
ModelFailureFailsTurn ==
  \A i \in ChatCalls :
    LET ev == calls[i].ev
    IN  \A p \in 1..Len(ev) :
          ev[p].e = "fail" =>
            /\ p = Len(ev) /\ p > 1 /\ ev[p - 1] = Ev("model", ev[p].id)
            /\ Len(SelectSeq(ev, LAMBDA x : x.e = "model" /\ x.id = ev[p].id)) = 1
            /\ calls[i].result = "error" /\ calls[i].err = "model call failed"
            /\ spans[calls[i].span].status = "error" /\ spans[calls[i].span].ends = 1
            /\ spans[calls[i].modelSpan].status = "error" /\ spans[calls[i].modelSpan].ends = 1
            /\ LET root == spans[calls[i].span].parent
               IN  /\ IsRoot(root)
                   /\ CleanupCalls = {} =>
                        spans[root].ends = 0 /\ sessionContext # 0 /\ sessionSpan # 0

\* a continuation model call failed, and the next turn was accepted and answered
TurnAfterModelFailure ==
  \E i \in ChatCalls : \E j \in ChatCalls :
    /\ i < j
    /\ calls[i].err = "model call failed" /\ calls[i].mc = 2
    /\ calls[j].span # 0 /\ calls[j].result = "ok"

(* C12: at most one session span is live (started and not ended).          *)
AtMostOneLiveRoot == Cardinality({r \in Roots : spans[r].ends = 0}) <= 1

(* C13: at most one chat() turn is in flight on an agent at any time.      *)
OneTurnAtATime == Cardinality({i \in ChatCalls : calls[i].result = "pending"}) <= 1

\* line is word (lower-case letters) written in some letter case
InAnyCase(line, word) ==
  /\ Len(line) = Len(word)
  /\ \A k \in 1..Len(word) :
       \/ line[k] = word[k]
       \/ \E u \in 1..Len(LowerCase) : LowerCase[u] = word[k] /\ UpperCase[u] = line[k]

(* C14: when the interactive loop reads a line, exit or quit in any letter *)
(* case begins shutdown and starts no chat() call; any other line, the     *)
(* empty one included, starts exactly one chat() call, with that line.     *)
LineStartsOneTurnOrShutdown ==
  [][\A line \in Lines :
       CliLine(line) =>
         IF InAnyCase(line, <<"e", "x", "i", "t">>) \/ InAnyCase(line, <<"q", "u", "i", "t">>)
         THEN /\ cli'.isClosing
              /\ ChatCalls' = ChatCalls
              /\ \A i \in 1..Len(calls') : i > Len(calls) => calls'[i].op = "cleanup"
         ELSE /\ Len(calls') = Len(calls) + 1
              /\ calls'[Len(calls')].op = "chat"
              /\ calls'[Len(calls')].input = LineToStr(line)
              /\ \A i \in 1..Len(calls) : calls'[i] = calls[i]
              /\ cli'.isClosing = cli.isClosing]_vars

\* two lines were read: the empty line made a turn, an exit command made none
EmptyLineThenExit ==
  /\ cli.lines = 2 /\ cli.signals = 0 /\ cli.isClosing
  /\ Cardinality(ChatCalls) = 1
  /\ \E i \in ChatCalls : calls[i].input = ""

(* C15: when the chat() call the interactive loop awaits is rejected, the  *)
(* process does not exit, no call is started, and unless shutdown has      *)
(* begun the loop asks for the next line.                                  *)
FailedTurnPromptsAgain ==
  [][(CliChatSettled /\ calls[cli.call].result = "error") =>
       /\ cli'.exit = -1
       /\ calls' = calls
       /\ cli'.pc = IF cli.isClosing THEN "stopped" ELSE "question"
       /\ ~cli.isClosing => cli'.rl = "open" /\ ~cli'.isClosing]_vars

\* a turn failed and the loop went on to a further turn
TurnEnteredAfterFailure ==
  \E i \in ChatCalls : \E j \in ChatCalls :
    /\ i < j /\ calls[i].result = "error"
    /\ cli.call = j /\ cli.exit = -1 /\ ~cli.isClosing

\* the connect() call main() made was rejected
StartupConnectFailed ==
  /\ cli.call \in 1..Len(calls)
  /\ calls[cli.call].op = "connect" /\ calls[cli.call].result = "error"

(* C16: the process exits with code 1 only from main(), on a missing       *)
(* credential or a rejected connect(), and then no prompt was issued and   *)
(* no turn was made; it exits with code 0 only after cleanup() of index.ts *)
(* has begun shutdown; without a credential it never exits with 0.         *)
ExitCodes ==
  /\ cli.exit \in {-1, 0, 1}
  /\ cli.exit = 1 =>
       /\ cli.exitBy = "main"
       /\ ~cli.apiKey \/ StartupConnectFailed
       /\ cli.pc \in {"start", "connecting"}
       /\ cli.lines = 0 /\ ChatCalls = {}
  /\ cli.exit = 0 => cli.isClosing /\ cli.exitBy \in {"timer", "sdk"} /\ cli.apiKey
  /\ (~cli.apiKey /\ cli.exit # -1) => cli.exit = 1 /\ calls = <<>>

\* a worker could not be reached and the process exited with code 1
ExitedOnConnectFailure ==
  cli.apiKey /\ StartupConnectFailed /\ cli.exit = 1 /\ ~cli.isClosing

\* the spans the agent starts around an operation (all but the session span)
ScopedSpans == {k \in SpanIds : spans[k].svc = "agent" /\ ~IsRoot(k)}

\* span k ended once, with the status of an operation that ended as result/err
EndedAs(k, result, err) ==
  /\ spans[k].ends = 1
  /\ spans[k].status = (IF result = "error" THEN "error" ELSE "ok")
  /\ spans[k].msg = err

(* C17: a span the agent starts around an operation is ended at most once  *)
(* and is not written after its end; once its operation is over it is      *)
(* ended exactly once with status ok, or with status error and the         *)
(* message of the failure.  For a call that has returned this holds of its *)
(* connect, cleanup or chat.turn span, of its chat.model_call span (which  *)
(* takes the error of a failed tool dispatch too), of its mcp.list_tools   *)
(* span and of the spans of the last worker it listed and called.          *)
ScopedSpansEndOnce ==
  /\ LET over == NonePending
     IN  \A k \in ScopedSpans :
           /\ spans[k].ends <= 1 /\ spans[k].late = 0
           /\ spans[k].ends = 1 =>
                /\ spans[k].status \in {"ok", "error"}
                /\ (spans[k].status = "error") = (spans[k].msg # "")
           /\ over => spans[k].ends = 1
  /\ \A i \in 1..Len(calls) :
       LET c == calls[i]
       IN  c.result # "pending" =>
             /\ c.span # 0 => EndedAs(c.span, c.result, c.err)
             /\ c.modelSpan # 0 => EndedAs(c.modelSpan, c.result, c.err)
             /\ c.listSpan # 0 =>
                  IF c.modelSpan = 0 THEN EndedAs(c.listSpan, c.result, c.err)
                  ELSE EndedAs(c.listSpan, "ok", "")
             /\ c.serverSpan # 0 =>
                  IF c.modelSpan = 0 THEN EndedAs(c.serverSpan, c.result, c.err)
                  ELSE EndedAs(c.serverSpan, "ok", "")
             /\ c.toolSpan # 0 =>
                  /\ spans[c.toolSpan].ends = 1
                  /\ spans[c.toolSpan].status = "error" =>
                       c.result = "error" /\ c.err = spans[c.toolSpan].msg

\* a tool dispatch failed after the model call span had been given status ok
ModelSpanTookDispatchError ==
  \E i \in ChatCalls :
    /\ calls[i].result = "error" /\ calls[i].err = "Division by zero"
    /\ calls[i].toolSpan # 0 /\ spans[calls[i].toolSpan].status = "error"
    /\ EndedAs(calls[i].modelSpan, "error", "Division by zero")

(* C18: once a worker's handler has returned, every span it started is     *)
(* ended exactly once and has a status, ok or error.                       *)
WorkerSpansEnded ==
  \A k \in SpanIds :
    spans[k].svc # "agent" => spans[k].ends = 1 /\ spans[k].status \in {"ok", "error"}

(* C19: the tool registration map is complete from the moment connect()    *)
(* returns and stays so: whenever a connect() has returned and none is     *)
(* running, every tool of every connected worker has its entry.            *)
MapBuiltByConnect ==
  ((\E i \in ConnectCalls : calls[i].result = "ok")
     /\ (\A i \in ConnectCalls : calls[i].result # "pending")) =>
    \A k \in 1..Len(servers) :
      \A t \in 1..Len(AdvertisedTools(conn[servers[k]].name)) :
        MapGet(toolServerMap, AdvertisedTools(conn[servers[k]].name)[t]) # 0

\* the per-worker listing spans of the chat() call i, one for each query
Queries(i) ==
  IF calls[i].listSpan = 0 THEN {}
  ELSE {k \in SpanIds : spans[k].parent = calls[i].listSpan}

(* C20: a chat() call queries the connected workers for their tools one    *)
(* by one in the order of this.servers, each at most once, all before its  *)
(* first model call; a query that fails is the last one, is not repeated,  *)
(* no model call follows and the turn is rejected with the query's error.  *)
CatalogueOncePerTurn ==
  \A i \in ChatCalls :
    LET c == calls[i]
        Q == Queries(i)
        n == Cardinality(Q)
    IN  /\ n <= Len(servers)
        /\ \A k \in Q :
             /\ LET rank == Cardinality({j \in Q : j <= k})
                IN  /\ spans[k].name = QueryName[conn[servers[rank]].name]
                    /\ rank < n => spans[k].status = "ok"
             /\ spans[k].ends = 0 => c.pc = "list" /\ c.serverSpan = k
             /\ c.modelSpan # 0 => k < c.modelSpan /\ spans[k].status = "ok"
             /\ spans[k].status = "error" =>
                  /\ c.result = "error" /\ c.err = spans[k].msg
                  /\ c.mc = 0 /\ c.modelSpan = 0 /\ c.ev = <<>>
                  /\ EndedAs(c.listSpan, "error", spans[k].msg)
        /\ c.mc > 0 => c.modelSpan # 0 /\ EndedAs(c.listSpan, "ok", "")

\* the first of two workers could not be queried: the turn failed there
ListingFailedAtFirstWorker ==
  \E i \in ChatCalls :
    /\ Len(servers) >= 2
    /\ Cardinality(Queries(i)) = 1
    /\ \E k \in Queries(i) : spans[k].status = "error"
    /\ calls[i].result = "error" /\ calls[i].mc = 0
\* the tool names in the keys of this.toolServerMap
MapKeys == {p[1] : p \in toolServerMap}

\* the elements of a sequence
Range(seq) == {seq[k] : k \in 1..Len(seq)}

(* C21: after a successful getMcpTools() the keys of toolServerMap are      *)
(* exactly the tool names the workers advertised in that query, each       *)
(* mapped to a connected worker that registers a tool of that name         *)
(* (checked of the latest call, while no later call has written the map).  *)
MapMatchesQuery ==
  \A i \in ChatCalls :
    (i = Len(calls) /\ calls[i].modelSpan # 0) =>
      /\ MapKeys = Range(calls[i].tools)
      /\ \A p \in toolServerMap :
           /\ p[2] \in Range(servers)
           /\ p[1] \in Range(AdvertisedTools(conn[p[2]].name))

(* C22: while a connected worker remains usable, a worker that has become  *)
(* unreachable fails only the turns that dispatch a tool to it: a chat()   *)
(* turn rejected with the error of the lost connection has made a dispatch *)
(* that ended with that error.                                             *)
DownWorkerFailsOnlyItsTools ==
  \A i \in ChatCalls :
    (/\ calls[i].result = "error" /\ calls[i].err = "Connection closed"
     /\ \E k \in Range(servers) : conn[k].state = "open") =>
      /\ calls[i].toolSpan # 0
      /\ spans[calls[i].toolSpan].status = "error"
      /\ spans[calls[i].toolSpan].msg = "Connection closed"

(* C23: a turn makes no further model call after a response that carries   *)
(* no tool request or whose stop_reason is end_turn: no chat() call waits  *)
(* for the model while the latest response it received said end_turn.      *)
TurnEndsOnEndTurn ==
  \A i \in ChatCalls : calls[i].stop = "end_turn" => calls[i].pc # "model"

\* the content has a block of type text
HasText(content) == \E k \in 1..Len(content) : content[k].type = "text"

\* the text of the first block of type text
FirstText(content) ==
  content[CHOOSE k \in 1..Len(content) :
            content[k].type = "text" /\ \A j \in 1..(k - 1) : content[j].type # "text"].text

(* C24: the payload of a dispatch result is the text of the first block of *)
(* type text in the content the worker returned, wherever that block is.   *)
PayloadIsFirstText ==
  \A i \in ChatCalls :
    LET c == calls[i]
    IN  (Len(c.toolResults) > 0 /\ HasText(c.reply)) =>
          c.toolResults[Len(c.toolResults)].content = FirstText(c.reply)

(* C25: the parent a worker builds from the trace context of a dispatch is *)
(* marked remote: the operation span the worker starts for a dispatch has  *)
(* a parent with isRemote = true.                                          *)
DispatchParentIsRemote ==
  \A w \in SpanIds :
    (spans[w].name \in WorkerOperations /\ spans[w].req # 0) => spans[w].remote

\* the number of model calls the call i has issued in the state with calls cs
IssuedBy(cs, i) == IF i <= Len(cs) THEN cs[i].mc ELSE 0

(* C26: the transcript only grows at its end (no step, of a failing turn   *)
(* or any other, removes or changes a message it holds), and a step that   *)
(* issues a model call hands it the whole transcript.                      *)
TranscriptAppendOnly ==
  [][/\ Len(messages') >= Len(messages)
     /\ SubSeq(messages', 1, Len(messages)) = messages
     /\ \A i \in 1..Len(calls') :
          IssuedBy(calls', i) > IssuedBy(calls, i) => calls'[i].sent = Len(messages')]_vars

\* a model call of a later turn was given the messages a failed turn left
FailedTurnMessagesResent ==
  \E i \in ChatCalls : \E j \in ChatCalls :
    /\ i < j
    /\ calls[i].result = "error" /\ calls[i].mc > 0
    /\ calls[j].pc = "model" /\ calls[j].sent = Len(messages)
    /\ \E k \in 1..(Len(messages) - 1) :
         /\ messages[k] = [role |-> "user", content |-> <<TextBlock(calls[i].input)>>]
         /\ messages[k + 1].role = "user"

\* the ids of the tool_use blocks of a message content, in order
ToolUseIds(content) ==
  LET sel == SelectSeq(content, LAMBDA b : b.type = "tool_use")
  IN  [k \in 1..Len(sel) |-> sel[k].id]

(* C27: with turns made one after the other, every assistant message of    *)
(* the transcript that holds tool requests is directly followed by a user  *)
(* message that consists of tool results, one for each request, with the   *)
(* ids of the requests in the same order.                                  *)
RequestsAnsweredInTranscript ==
  \A k \in 1..Len(messages) :
    (messages[k].role = "assistant" /\ ToolUseIds(messages[k].content) # <<>>) =>
      /\ k < Len(messages)
      /\ messages[k + 1].role = "user"
      /\ \A b \in 1..Len(messages[k + 1].content) :
           messages[k + 1].content[b].type = "tool_result"
      /\ [b \in 1..Len(messages[k + 1].content) |-> messages[k + 1].content[b].tool_use_id]
           = ToolUseIds(messages[k].content)

\* a turn answered two requests and then failed; the next turn succeeded
TwoRequestsAnsweredThenFailure ==
  /\ \E k \in 1..Len(messages) :
       messages[k].role = "assistant" /\ Len(ToolUseIds(messages[k].content)) = 2
  /\ \E i \in ChatCalls : \E j \in ChatCalls :
       i < j /\ calls[i].result = "error" /\ calls[i].mc = 2 /\ calls[j].result = "ok"

(* C28: the session span is written (attributes, status) only between      *)
(* turns: the turn-recording step has not written it while a chat.turn     *)
(* span was open, and cleanup() has not written and ended it while a       *)
(* chat.turn span of that session is open.                                 *)
RootWrittenBetweenTurns ==
  \A r \in Roots :
    /\ spans[r].inTurn = 0
    /\ spans[r].event = "end" =>
         \A k \in SpanIds : (spans[k].name = "chat.turn" /\ spans[k].sess = r) => spans[k].ends > 0

\* the chat() calls that returned a response
OkChats == {i \in ChatCalls : calls[i].result = "ok"}

\* the position of call i among the calls that returned a response
OkRank(i) == Cardinality({j \in OkChats : j <= i})

RECURSIVE TextUpTo(_, _)
\* the texts of the text blocks among the first n blocks, in order
TextUpTo(content, n) ==
  IF n = 0 THEN ""
  ELSE TextUpTo(content, n - 1) \o (IF content[n].type = "text" THEN content[n].text ELSE "")

\* the text of block k of the response to model call mc of call i
TextOfBlock(i, mc, k) == "t" \o IntToStr((i * 10 + mc) * 10 + k)

TurnRecordMatchesHistory ==
  /\ Len(conversationHistory) = Cardinality(OkChats)
  /\ \A r \in Roots :
       (\A q \in Roots : q <= r) => spans[r].turns = Len(conversationHistory)

\* the call i, or an empty record when it has not been made
CallAt(cs, i) == IF i <= Len(cs) THEN cs[i] ELSE NoCall

\* the content holds a tool request
HasRequest(content) == \E k \in 1..Len(content) : content[k].type = "tool_use"

(* C31: the tool-call loop of chat() has no iteration bound.  A turn       *)
(* returns only in the step that receives a response without a tool        *)
(* request; a step that ends a dispatch without an error goes on to the    *)
(* next dispatch or to one more model call, however many the turn has      *)
(* made; and when every await is answered and the model at last sends a    *)
(* response without a request, the turn is over.                           *)
LoopEndsOnlyWithoutRequest ==
  /\ [][\A i \in 1..MaxCalls :
          LET c == CallAt(calls, i)
              d == CallAt(calls', i)
          IN  (c.op = "chat" /\ c.result = "pending") =>
                /\ d.result = "ok" => c.pc = "model" /\ ~HasRequest(d.returned)
                /\ (c.pc = "tool" /\ d.result = "pending" /\ d # c) =>
                     \/ d.pc = "tool" /\ d.mc = c.mc /\ d.bi > c.bi
                     \/ d.pc = "model" /\ d.mc = c.mc + 1]_vars
  /\ \A i \in 1..MaxCalls :
       (CallAt(calls, i).op = "chat" /\ CallAt(calls, i).result = "pending")
         ~> (CallAt(calls, i).result # "pending")

\* a turn returned after the model had asked for tools MaxIterations times
LoopRanToTheModelsEnd ==
  \E i \in ChatCalls :
    /\ calls[i].result = "ok" /\ calls[i].mc = MaxIterations + 1
    /\ ~HasRequest(calls[i].returned)
    /\ Len(IdsOf(calls[i].ev, "end")) >= MaxIterations

\* the methods that need the session context
GuardedMethods == {"chat", "getMcpTools", "handleToolUse"}

(* C32: chat(), getMcpTools() and handleToolUse() called while there is no *)
(* session context (before connect() has made it, after cleanup() has      *)
(* released it) are rejected with the "Session context not initialized"    *)
(* error in the step of the call: no span is started, the transcript, the  *)
(* model call count, the tool map and the connections are left as they     *)
(* were and no request is left pending.                                    *)
NoSessionFailsAtTheGuard ==
  [][(/\ Len(calls') = Len(calls) + 1
      /\ calls'[Len(calls')].op \in GuardedMethods
      /\ sessionContext = 0) =>
       /\ calls'[Len(calls')].result = "error"
       /\ calls'[Len(calls')].err = SessionError
       /\ calls'[Len(calls')].pc = "done"
       /\ spans' = spans /\ messages' = messages /\ modelCalls' = modelCalls
       /\ conn' = conn /\ toolServerMap' = toolServerMap
       /\ sessionContext' = 0]_vars

\* connect() made a session, cleanup() released it, and a getMcpTools() or a
\* handleToolUse() called afterwards was rejected at its guard
RejectedAfterCleanup ==
  \E i \in ConnectCalls : \E j \in CleanupCalls : \E k \in 1..Len(calls) :
    /\ i < j /\ j < k
    /\ calls[i].result = "ok" /\ calls[j].ended # 0
    /\ calls[k].op \in {"getMcpTools", "handleToolUse"}
    /\ calls[k].err = SessionError

(* C33: after a SIGTERM the process does not exit before the workers are   *)
(* closed and the session span is ended: once the SIGTERM listener of      *)
(* tracing.ts has run, an exit finds every connection the agent holds      *)
(* closed and every session span ended.                                    *)
SigtermExitsAfterRootEnded ==
  (cli.sdk = "shutting" /\ cli.exit # -1) =>
    /\ AllClosed
    /\ \A r \in Roots : spans[r].ends = 1

\* the name of span k is that of a dispatch span
IsDispatch(k) == \E t \in ToolNames : spans[k].name = DispatchName[t]

(* C34: every mcp_tool.<name> span and every mcp.list_tools span has a      *)
(* session span as its direct parent, the one that was live when it was    *)
(* started, and never a chat.turn or chat.model_call span; the children of *)
(* a chat.turn span are chat.model_call spans, and nothing is a child of a *)
(* chat.model_call span.                                                   *)
DispatchAndListingUnderRoot ==
  \A k \in SpanIds :
    LET p == spans[k].parent
    IN  /\ (IsDispatch(k) \/ spans[k].name = "mcp.list_tools") =>
             /\ IsRoot(p) /\ p = spans[k].sess
             /\ spans[k].trace = spans[p].trace
        /\ spans[k].name = "chat.model_call" => p # 0 /\ spans[p].name = "chat.turn"
        /\ (p # 0 /\ spans[p].name = "chat.turn") => spans[k].name = "chat.model_call"
        /\ p # 0 => spans[p].name # "chat.model_call"

\* a turn listed the tools, called the model and dispatched a tool after the
\* chat.model_call span had been started, and returned
DispatchedInsideTurn ==
  \E i \in ChatCalls :
    /\ calls[i].result = "ok"
    /\ calls[i].listSpan # 0 /\ calls[i].modelSpan # 0
    /\ calls[i].toolSpan > calls[i].modelSpan
    /\ IsRoot(spans[calls[i].toolSpan].parent)
    /\ spans[calls[i].modelSpan].parent = calls[i].span

(* C35: a cleanup() in which a close() throws is rejected with that error  *)
(* after its finally block has run: the cleanup span is ended with status  *)
(* error, the session span is ended exactly once, with status ok and       *)
(* nothing written afterwards, and the session fields are released; the    *)
(* shutdown of index.ts goes on after the rejection: it closes the input   *)
(* and arms its timer once, and the process exits with code 0.             *)
CloseFailureStillShutsDown ==
  \A i \in CleanupCalls :
    calls[i].err = "close failed" =>
      /\ calls[i].result = "error"
      /\ EndedAs(calls[i].span, "error", "close failed")
      /\ IsRoot(calls[i].ended)
      /\ spans[calls[i].ended].ends = 1 /\ spans[calls[i].ended].status = "ok"
      /\ spans[calls[i].ended].late = 0
      /\ sessionSpan = 0 /\ sessionContext = 0
      /\ cli.cleanupCall = i
      /\ cli.cpc = "done" =>
           cli.rl = "closed" /\ cli.timers = 1 /\ cli.timer \in {"armed", "fired"}
      /\ cli.exit # -1 => cli.exit = 0


\* the number of dispatches the call record c has begun
Dispatches(c) == Cardinality({k \in 1..Len(c.ev) : c.ev[k].e = "start"})

\* no step changes a session span that has been ended: no attribute, status
\* or event, no second end, no write that arrives after the end
EndedSessionUntouched ==
  \A r \in 1..Len(spans) :
    (spans[r].name = "chat.session" /\ spans[r].ends > 0) => spans'[r] = spans[r]

\* the turn i finishes while this.sessionSpan is null: the history gets its
\* entry and every session span stays as it was
RecordingSkipsSession(i) ==
  (sessionSpan = 0 /\ calls'[i].result = "ok") =>
    /\ Len(conversationHistory') = Len(conversationHistory) + 1
    /\ \A r \in Roots : spans'[r] = spans[r]

\* the turn i begins a dispatch while this.sessionContext is null: it ends
\* with the error of the guard and no span of the agent is started
DispatchFailsOnReleased(i) ==
  (sessionContext = 0 /\ Dispatches(calls'[i]) > Dispatches(calls[i])) =>
    /\ calls'[i].result = "error"
    /\ calls'[i].err = SessionError
    /\ \A k \in (Len(spans) + 1)..Len(spans') : spans'[k].svc # "agent"

\* the turn i does not go on to query the next worker for its tools while
\* this.sessionContext is null
QueryFailsOnReleased(i) ==
  sessionContext = 0 => ~(calls'[i].pc = "list" /\ calls'[i].idx > calls[i].idx)

\* the turn i is in flight
InFlight(i) == calls[i].op = "chat" /\ calls[i].result = "pending" /\ calls[i].span # 0

(* C36: a session span that has been ended is never written to and never   *)
(* ended again, in any interleaving of cleanup() with a turn: no step      *)
(* changes an ended session span; a turn that finishes while               *)
(* this.sessionSpan is null leaves the session spans alone; and a turn     *)
(* that, after cleanup() has released the session context, goes on to a    *)
(* dispatch or to the tools query of the next worker fails on the missing  *)
(* context instead.                                                        *)
EndedSessionIsNeverTouched ==
  [][/\ EndedSessionUntouched
     /\ \A i \in 1..Len(calls) :
          InFlight(i) => /\ RecordingSkipsSession(i)
                         /\ DispatchFailsOnReleased(i)
                         /\ QueryFailsOnReleased(i)]_vars

\* what holds of it: everything but the tools query of the next worker
EndedSessionStaysEnded ==
  [][/\ EndedSessionUntouched
     /\ \A i \in 1..Len(calls) :
          InFlight(i) => RecordingSkipsSession(i) /\ DispatchFailsOnReleased(i)]_vars

====
